---- MODULE Spec2Model ----
(***************************************************************************)
(* Model of lsmp::tcp_connection (src/net/tcp_connection.{hpp,cpp}).       *)
(*                                                                         *)
(* One tcp_connection object is modelled (its mutex, its async_buffer and  *)
(* its async_read_excepted_size).  `wire' is the byte stream between the   *)
(* socket the send operations write to and the socket the read operations  *)
(* read from.  send_packet and async_send_packet touch no member of the    *)
(* object besides the socket, so the sending endpoint has no state of its  *)
(* own.  Blocking operations are run by threads and are split at their     *)
(* blocking socket calls; the handlers of the asynchronous operations run  *)
(* to completion in the io_service.                                        *)
(*                                                                         *)
(* The host is little-endian (the length field is in host byte order).     *)
(***************************************************************************)
EXTENDS Integers, Sequences, FiniteSets, TLC

\* ---------------------------------------------------------------- bounds
\* Longest payload handed to a send operation.
MaxPayloadLen == 2
\* Steps of the application in one behaviour: calls of public operations,
\* the destruction of the connection, changes of a payload it has passed.
MaxOps == 2
\* A socket transfer moves its whole buffer (for a read: all that is ready)
\* or a short count of at most MaxShort bytes.
MaxShort == 1

\* Largest size passed to secure_malloc.
MaxSize == 3

\* Largest page size of the platform.
MaxPageSize == 2

\* Writes of the application into an allocation between secure_malloc and
\* secure_free.
MaxWrites == 2

Threads == {"t1", "t2"}
NoThread == "none"

PayloadByte == {1}

\* ------------------------------------------------------- pure operators
Min(a, b) == IF a < b THEN a ELSE b

SeqsUpTo(S, n) == UNION {[1..k -> S] : k \in 0..n}

Payloads == SeqsUpTo(PayloadByte, MaxPayloadLen)

\* 'L','S','M','P'
Magic == <<76, 83, 77, 80>>

\* Values of a uint64_t from 2^16 on are all represented by Huge: no buffer
\* of the model comes near that length, so they compare alike.
Huge == 256 * 256

\* The union { uint8_t size_bytes[8]; uint64_t size; } written through size.
SizeBytes(n) ==
    [i \in 1..8 |-> IF i = 1 THEN n % 256
                    ELSE IF i = 2 THEN (n \div 256) % 256
                    ELSE 0]

\* The same union read through excepted_size.
SizeValue(b) ==
    IF \E i \in 3..8 : b[i] # 0 THEN Huge ELSE b[1] + 256 * b[2]

\* The frame of a payload on the wire: magic, 8-byte length, payload.
Frame(p) == Magic \o SizeBytes(Len(p)) \o p

\* A marker comparison that looks at the first byte only.
MarkerValid_first_byte(m) == ~(m[1] # 76)

\* The marker comparison of read_packet and read_async_inner.
MarkerValid(m) == ~(m[1] # 76 \/ m[2] # 83 \/ m[3] # 77 \/ m[4] # 80)

\* An array that received `bytes' at its start and keeps `old' elsewhere.
Overlay(old, bytes) ==
    [i \in 1..Len(old) |-> IF i <= Len(bytes) THEN bytes[i] ELSE old[i]]

Take(s, k) == SubSeq(s, 1, k)

\* Byte counts one read_some / async_read_some of n bytes can return when
\* avail bytes are ready (none: the read waits).
ReadCounts(n, avail) ==
    {k \in 1..Min(n, avail) : k <= MaxShort \/ k = Min(n, avail)}

\* Byte counts one write_some / async_write_some of buf can accept.
Accepted(buf) ==
    IF Len(buf) = 0 THEN {0}
    ELSE {k \in 1..Len(buf) : k <= MaxShort \/ k = Len(buf)}

Drop(s, k) == SubSeq(s, k + 1, Len(s))

\* What an uninitialized uint8_t marker[4] can hold: the bytes a previous
\* call left in the stack slot, or something else.
UninitMarker == {Magic, <<0, 0, 0, 0>>}

\* What an uninitialized size_bytes[8] can hold.
UninitSize == {[i \in 1..8 |-> 0], [i \in 1..8 |-> 255]}

\* What the other byte of the uninitialized uint16_t byte_buffer can hold.
UninitByte == {0, 255}

\* result.push_back(byte_buffer): the uint16_t whose first (low) byte was
\* read from the socket, converted to uint8_t.
PushByte(b, g) == (b + 256 * g) % 256

\* Results of a blocking call.
NoOutcome == [kind |-> "none", value |-> <<>>]
Returned(v) == [kind |-> "return", value |-> v]
Sent == [kind |-> "sent", value |-> <<>>]
Thrown(e) == [kind |-> e, value |-> <<>>]

\* async_error: std::optional<std::variant<...>>.
NoError == [has_value |-> FALSE, kind |-> "none", code |-> "none"]
SystemError(ec) == [has_value |-> TRUE, kind |-> "system_error", code |-> ec]
CorruptedPacketError == [has_value |-> TRUE, kind |-> "corrupted_packet_error", code |-> "none"]
DomainError == [has_value |-> TRUE, kind |-> "domain_error", code |-> "none"]

\* ---------------------------------------------------------------- state
VARIABLES
    wire,                     \* bytes written to the stream and not yet read
    socket_access_mutex,      \* the thread holding the mutex, or NoThread
    async_buffer,             \* tcp_connection::async_buffer
    async_read_excepted_size, \* tcp_connection::async_read_excepted_size
    ops,                      \* asynchronous socket operations issued and not completed
    pc,                       \* where each thread is in its blocking call
    packet,                   \* send_packet's argument
    marker,                   \* read_packet's marker[4], <<>> before the read
    excepted_size,            \* read_packet's excepted_size
    result,                   \* read_packet's result
    outcome,                  \* how the thread's last blocking call ended
    nops,                     \* calls of public operations so far
    \* Records of the thread's last blocking call, cleared at its next one:
    nreads,                   \* socket reads read_packet made
    consumed,                 \* bytes they took from the stream
    written,                  \* bytes send_packet put on the stream
    at_lock,                  \* the stream when read_packet took the mutex
    sent_at_lock,             \* the payloads of the send_packet calls that had returned then
    reentrant,                \* read_packet was called with an asynchronous read pending
    after_cancel,             \* the call was made after a cancel_async
    read_cb,                  \* per async_read_packet call, the invocations of its callback
    read_overlap,             \* per async_read_packet call, was an earlier one pending
    read_wire,                \* per async_read_packet call, the stream at the call
    send_cb,                  \* per async_send_packet call, the invocations of its callback
    send_arg,                 \* per async_send_packet call, its payload
    caller_payload,           \* per async_send_packet call, the caller's vector now
    put,                      \* per async_send_packet call, the bytes its write put on the stream
    cancel_called,            \* cancel_async has been called
    cancelled_reads,          \* the async_read_packet calls pending at a cancel_async
    at_cancel,                \* the asynchronous calls made before the first cancel_async
    destroyed,                \* ~tcp_connection has run
    dangling,                 \* a handler has used the object after its destruction
    \* The secure memory of utils/secure_memory: one allocation.
    have_aligned_malloc,      \* the build defines HAVE_ALIGNED_MALLOC (and HAVE_MPROTECT)
    page_size,                \* get_page_size()
    heap,                     \* "unallocated", "failed", "live", "released" or "leaked"
    proc,                     \* the process: "running", "aborted" or "segv"
    mem,                      \* the bytes of the allocation, from its base
    prot,                     \* the protection of each byte's page: "rw", "r" or "none"
    alloc_size,               \* the size passed to secure_malloc
    user_ptr,                 \* the pointer secure_malloc returned, as an offset from the base
    nwrites,                  \* writes of the application into the allocation
    stray,                    \* one of them was outside [ptr, ptr + size)
    last_call,                \* the last function called: "none", "malloc", "write", "check", "free"
    before                    \* the bytes of the allocation at the last check_canary or secure_free

sock_vars == <<wire, ops>>
conn_vars == <<socket_access_mutex, async_buffer, async_read_excepted_size>>
thread_vars == <<pc, packet, marker, excepted_size, result, outcome, nreads,
                 consumed, written, at_lock, sent_at_lock, reentrant,
                 after_cancel>>
async_vars == <<read_cb, read_overlap, read_wire, send_cb, send_arg,
                caller_payload, put, cancel_called, cancelled_reads,
                at_cancel>>
life_vars == <<destroyed, dangling>>
net_vars == <<sock_vars, conn_vars, thread_vars, async_vars, life_vars, nops>>
mem_vars == <<have_aligned_malloc, page_size, heap, proc, mem, prot,
              alloc_size, user_ptr, nwrites, stray, last_call, before>>
vars == <<net_vars, mem_vars>>

\* What the peer may have put on the stream before the first operation:
\* nothing, or four bytes that are not the marker.
InitialWires == {<<>>, <<88, 88, 88, 88>>}

\* The connection and its threads after construction.
Constructed ==
    /\ socket_access_mutex = NoThread
    /\ async_buffer = <<>>
    /\ async_read_excepted_size = 0
    /\ ops = <<>>
    /\ pc = [t \in Threads |-> "idle"]
    /\ packet = [t \in Threads |-> <<>>]
    /\ marker = [t \in Threads |-> <<>>]
    /\ excepted_size = [t \in Threads |-> 0]
    /\ result = [t \in Threads |-> <<>>]
    /\ outcome = [t \in Threads |-> NoOutcome]
    /\ nops = 0
    /\ nreads = [t \in Threads |-> 0]
    /\ consumed = [t \in Threads |-> 0]
    /\ written = [t \in Threads |-> <<>>]
    /\ at_lock = [t \in Threads |-> <<>>]
    /\ sent_at_lock = [t \in Threads |-> {}]
    /\ reentrant = [t \in Threads |-> FALSE]
    /\ after_cancel = [t \in Threads |-> FALSE]
    /\ read_cb = <<>>
    /\ read_overlap = <<>>
    /\ read_wire = <<>>
    /\ send_cb = <<>>
    /\ send_arg = <<>>
    /\ caller_payload = <<>>
    /\ put = <<>>
    /\ cancel_called = FALSE
    /\ cancelled_reads = {}
    /\ at_cancel = [reads |-> 0, sends |-> 0]
    /\ destroyed = FALSE
    /\ dangling = FALSE

\* Page sizes of the platform.
PageSizes == 2..MaxPageSize

\* No secure memory has been allocated.
Unallocated ==
    /\ heap = "unallocated"
    /\ proc = "running"
    /\ mem = <<>>
    /\ prot = <<>>
    /\ alloc_size = 0
    /\ user_ptr = 0
    /\ nwrites = 0
    /\ stray = FALSE
    /\ last_call = "none"
    /\ before = <<>>

\* The connection does not use the allocator: one platform stands for all.
Init ==
    /\ wire \in InitialWires
    /\ Constructed
    /\ have_aligned_malloc = TRUE
    /\ page_size = MaxPageSize
    /\ Unallocated

\* The peer has sent two frames before the first call.
TwoFramesInit ==
    /\ wire = Magic \o SizeBytes(1) \o <<1>> \o Magic \o SizeBytes(0)
    /\ Constructed
    /\ have_aligned_malloc = TRUE
    /\ page_size = MaxPageSize
    /\ Unallocated

\* The async_read_packet calls whose callback has not been invoked.
PendingReads == {i \in 1..Len(read_cb) : read_cb[i] = <<>>}

\* Threads are named in the order of their first calls: "t2" makes its
\* first call after "t1" has made one.
MayCall(t) ==
    /\ ~destroyed
    /\ pc[t] = "idle"
    /\ t = "t2" => (pc["t1"] # "idle" \/ outcome["t1"] # NoOutcome)

\* ---------------------------------------------------------- read_packet
\* The reentrancy check, made before the mutex is taken.
read_packet_call(t) ==
    /\ MayCall(t)
    /\ nops < MaxOps
    /\ nops' = nops + 1
    /\ marker' = [marker EXCEPT ![t] = <<>>]
    /\ result' = [result EXCEPT ![t] = <<>>]
    /\ excepted_size' = [excepted_size EXCEPT ![t] = 0]
    /\ nreads' = [nreads EXCEPT ![t] = 0]
    /\ consumed' = [consumed EXCEPT ![t] = 0]
    /\ at_lock' = [at_lock EXCEPT ![t] = <<>>]
    /\ sent_at_lock' = [sent_at_lock EXCEPT ![t] = {}]
    /\ reentrant' = [reentrant EXCEPT ![t] = PendingReads # {}]
    /\ after_cancel' = [after_cancel EXCEPT ![t] = cancel_called]
    /\ packet' = [packet EXCEPT ![t] = <<>>]
    /\ written' = [written EXCEPT ![t] = <<>>]
    /\ IF async_buffer # <<>>
         THEN /\ outcome' = [outcome EXCEPT ![t] = Thrown("domain_error")]
              /\ pc' = pc
         ELSE /\ outcome' = [outcome EXCEPT ![t] = NoOutcome]
              /\ pc' = [pc EXCEPT ![t] = "r_lock"]
    /\ UNCHANGED <<sock_vars, conn_vars, async_vars>>
    /\ UNCHANGED life_vars
    /\ UNCHANGED mem_vars

\* std::lock_guard<std::mutex> lock(socket_access_mutex)
read_packet_lock(t) ==
    /\ pc[t] = "r_lock"
    /\ socket_access_mutex = NoThread
    /\ socket_access_mutex' = t
    /\ pc' = [pc EXCEPT ![t] = "r_marker"]
    /\ at_lock' = [at_lock EXCEPT ![t] = wire]
    /\ sent_at_lock' = [sent_at_lock EXCEPT ![t] =
                           {packet[s] : s \in {u \in Threads : outcome[u] = Sent}}]
    /\ UNCHANGED <<sock_vars, async_buffer, async_read_excepted_size,
                   async_vars, nops, packet, marker, excepted_size, result,
                   outcome, nreads, consumed, written, reentrant,
                   after_cancel>>
    /\ UNCHANGED life_vars
    /\ UNCHANGED mem_vars

\* An exception that leaves read_packet with the mutex still locked.
Throw_keeps_lock(t, e) ==
    /\ outcome' = [outcome EXCEPT ![t] = Thrown(e)]
    /\ pc' = [pc EXCEPT ![t] = "idle"]
    /\ socket_access_mutex' = socket_access_mutex

\* An exception leaves read_packet: the lock_guard releases the mutex.
Throw(t, e) ==
    /\ outcome' = [outcome EXCEPT ![t] = Thrown(e)]
    /\ pc' = [pc EXCEPT ![t] = "idle"]
    /\ socket_access_mutex' = NoThread

\* read_packet returns result: the lock_guard releases the mutex.
Return(t, v) ==
    /\ outcome' = [outcome EXCEPT ![t] = Returned(v)]
    /\ pc' = [pc EXCEPT ![t] = "idle"]
    /\ socket_access_mutex' = NoThread

\* socket.read_some(marker, 4) and the marker check.
read_packet_marker(t) ==
    /\ pc[t] = "r_marker"
    /\ \/ \* read_some throws asio::system_error
          /\ Throw(t, "system_error")
          /\ UNCHANGED <<wire, marker, nreads, consumed>>
       \/ \* read_some returns some of the bytes that are ready
          \E k \in ReadCounts(4, Len(wire)), old \in UninitMarker :
            LET m == Overlay(old, Take(wire, k)) IN
            /\ wire' = Drop(wire, k)
            /\ marker' = [marker EXCEPT ![t] = m]
            /\ nreads' = [nreads EXCEPT ![t] = @ + 1]
            /\ consumed' = [consumed EXCEPT ![t] = @ + k]
            /\ IF MarkerValid(m)
                 THEN /\ pc' = [pc EXCEPT ![t] = "r_size"]
                      /\ UNCHANGED <<outcome, socket_access_mutex>>
                 ELSE Throw(t, "corrupted_packet_error")
    /\ UNCHANGED <<ops, async_buffer, async_read_excepted_size, async_vars,
                   nops, packet, excepted_size, result, written, at_lock, sent_at_lock,
                   reentrant,
                   after_cancel>>
    /\ UNCHANGED life_vars
    /\ UNCHANGED mem_vars

\* socket.read_some(size_bytes, 8); the loop ends at once when the size is 0.
read_packet_size(t) ==
    /\ pc[t] = "r_size"
    /\ \/ /\ Throw(t, "system_error")
          /\ UNCHANGED <<wire, excepted_size, nreads, consumed>>
       \/ \E k \in ReadCounts(8, Len(wire)), old \in UninitSize :
            LET n == SizeValue(Overlay(old, Take(wire, k))) IN
            /\ wire' = Drop(wire, k)
            /\ excepted_size' = [excepted_size EXCEPT ![t] = n]
            /\ nreads' = [nreads EXCEPT ![t] = @ + 1]
            /\ consumed' = [consumed EXCEPT ![t] = @ + k]
            /\ IF Len(result[t]) < n
                 THEN /\ pc' = [pc EXCEPT ![t] = "r_payload"]
                      /\ UNCHANGED <<outcome, socket_access_mutex>>
                 ELSE Return(t, result[t])
    /\ UNCHANGED <<ops, async_buffer, async_read_excepted_size, async_vars,
                   nops, packet, marker, result, written, at_lock, sent_at_lock, reentrant,
                   after_cancel>>
    /\ UNCHANGED life_vars
    /\ UNCHANGED mem_vars

\* One turn of the loop: socket.read_some(&byte_buffer, 1); push_back.
read_packet_payload(t) ==
    /\ pc[t] = "r_payload"
    /\ \/ /\ Throw(t, "system_error")
          /\ UNCHANGED <<wire, result, nreads, consumed>>
       \/ \E k \in ReadCounts(1, Len(wire)), g \in UninitByte :
            LET r == Append(result[t], PushByte(wire[1], g)) IN
            /\ wire' = Drop(wire, k)
            /\ result' = [result EXCEPT ![t] = r]
            /\ nreads' = [nreads EXCEPT ![t] = @ + 1]
            /\ consumed' = [consumed EXCEPT ![t] = @ + k]
            /\ IF Len(r) < excepted_size[t]
                 THEN UNCHANGED <<pc, outcome, socket_access_mutex>>
                 ELSE Return(t, r)
    /\ UNCHANGED <<ops, async_buffer, async_read_excepted_size, async_vars,
                   nops, packet, marker, excepted_size, written, at_lock, sent_at_lock,
                   reentrant,
                   after_cancel>>
    /\ UNCHANGED life_vars
    /\ UNCHANGED mem_vars

\* ---------------------------------------------------------- send_packet
\* send_packet throws asio::system_error; it holds no lock.
SendThrow(t) ==
    /\ outcome' = [outcome EXCEPT ![t] = Thrown("system_error")]
    /\ pc' = [pc EXCEPT ![t] = "idle"]

\* The call and socket.write_some(marker, 4).
send_packet_marker(t) ==
    /\ MayCall(t)
    /\ nops < MaxOps
    /\ nops' = nops + 1
    /\ \E p \in Payloads :
         /\ packet' = [packet EXCEPT ![t] = p]
         /\ \/ /\ SendThrow(t)
               /\ written' = [written EXCEPT ![t] = <<>>]
               /\ wire' = wire
            \/ \E k \in Accepted(Magic) :
                 /\ wire' = wire \o Take(Magic, k)
                 /\ written' = [written EXCEPT ![t] = Take(Magic, k)]
                 /\ outcome' = [outcome EXCEPT ![t] = NoOutcome]
                 /\ pc' = [pc EXCEPT ![t] = "s_size"]
    /\ marker' = [marker EXCEPT ![t] = <<>>]
    /\ result' = [result EXCEPT ![t] = <<>>]
    /\ excepted_size' = [excepted_size EXCEPT ![t] = 0]
    /\ nreads' = [nreads EXCEPT ![t] = 0]
    /\ consumed' = [consumed EXCEPT ![t] = 0]
    /\ at_lock' = [at_lock EXCEPT ![t] = <<>>]
    /\ sent_at_lock' = [sent_at_lock EXCEPT ![t] = {}]
    /\ reentrant' = [reentrant EXCEPT ![t] = FALSE]
    /\ after_cancel' = [after_cancel EXCEPT ![t] = cancel_called]
    /\ UNCHANGED <<ops, conn_vars, async_vars>>
    /\ UNCHANGED life_vars
    /\ UNCHANGED mem_vars

\* size = packet.size(); socket.write_some(size_bytes, 8).
send_packet_size(t) ==
    /\ pc[t] = "s_size"
    /\ \/ /\ SendThrow(t)
          /\ UNCHANGED <<wire, written>>
       \/ \E k \in Accepted(SizeBytes(Len(packet[t]))) :
            LET b == Take(SizeBytes(Len(packet[t])), k) IN
            /\ wire' = wire \o b
            /\ written' = [written EXCEPT ![t] = @ \o b]
            /\ pc' = [pc EXCEPT ![t] = "s_payload"]
            /\ outcome' = outcome
    /\ UNCHANGED <<ops, conn_vars, async_vars, nops, packet, marker,
                   excepted_size, result, nreads, consumed, at_lock, sent_at_lock, reentrant,
                   after_cancel>>
    /\ UNCHANGED life_vars
    /\ UNCHANGED mem_vars

\* socket.write_some(packet) and the return.
send_packet_payload(t) ==
    /\ pc[t] = "s_payload"
    /\ \/ /\ SendThrow(t)
          /\ UNCHANGED <<wire, written>>
       \/ \E k \in Accepted(packet[t]) :
            LET b == Take(packet[t], k) IN
            /\ wire' = wire \o b
            /\ written' = [written EXCEPT ![t] = @ \o b]
            /\ pc' = [pc EXCEPT ![t] = "idle"]
            /\ outcome' = [outcome EXCEPT ![t] = Sent]
    /\ UNCHANGED <<ops, conn_vars, async_vars, nops, packet, marker,
                   excepted_size, result, nreads, consumed, at_lock, sent_at_lock, reentrant,
                   after_cancel>>
    /\ UNCHANGED life_vars
    /\ UNCHANGED mem_vars

\* ------------------------------------------------ asynchronous operations
\* An asynchronous socket operation: its kind ("write", "read_size",
\* "read_payload"), the call whose callback its handler captured, the buffer
\* a write sends, the byte count a read asks for, and whether socket.cancel()
\* has hit it.
Op(kind, cb, buf, n) ==
    [kind |-> kind, cb |-> cb, buf |-> buf, n |-> n, cancelled |-> FALSE]

\* One invocation of an async_read_callback.
ReadCb(payload, err) == [payload |-> payload, err |-> err]

\* async_buffer.resize(8)
Resize(buf, n) == [i \in 1..n |-> IF i <= Len(buf) THEN buf[i] ELSE 0]

\* A read_async_inner that makes room for the marker in the buffer.
read_async_inner_resizes(buf, exp, cb) ==
    [buffer |-> Resize(buf, 4), expected |-> exp, issued |-> <<>>, calls |-> <<>>]

\* read_async_inner(callback), on the buffer and expected size it finds:
\* the buffer and expected size it leaves, the socket reads it issues and
\* the invocations of callback it makes.
read_async_inner(buf, exp, cb) ==
    LET first == Len(buf) = 4 /\ exp = 0 IN
    IF first /\ ~MarkerValid(buf)
      THEN [buffer |-> buf, expected |-> exp, issued |-> <<>>,
            calls |-> <<ReadCb(<<>>, CorruptedPacketError)>>]
      ELSE LET buf1 == IF first THEN Resize(buf, 8) ELSE buf
               issued1 == IF first THEN <<Op("read_size", cb, <<>>, 8)>> ELSE <<>>
               second == Len(buf1) = 8 /\ exp = 0
           IN  [buffer |-> buf1,
                expected |-> IF second THEN SizeValue(buf1) ELSE exp,
                issued |-> IF second
                             THEN issued1 \o <<Op("read_payload", cb, <<>>, Len(buf1))>>
                             ELSE issued1,
                calls |-> <<>>]

\* async_read_packet(callback)
async_read_packet ==
    /\ ~destroyed
    /\ nops < MaxOps
    /\ nops' = nops + 1
    /\ read_overlap' = Append(read_overlap, PendingReads # {})
    /\ read_wire' = Append(read_wire, wire)
    /\ IF async_buffer # <<>>
         THEN /\ read_cb' = Append(read_cb, <<ReadCb(<<>>, DomainError)>>)
              /\ UNCHANGED <<ops, async_buffer, async_read_excepted_size>>
         ELSE LET r == read_async_inner(async_buffer, async_read_excepted_size,
                                        Len(read_cb) + 1) IN
              /\ read_cb' = Append(read_cb, r.calls)
              /\ async_buffer' = r.buffer
              /\ async_read_excepted_size' = r.expected
              /\ ops' = ops \o r.issued
    /\ UNCHANGED <<wire, socket_access_mutex, thread_vars, send_cb, send_arg,
                   caller_payload, put, cancel_called, cancelled_reads,
                   at_cancel>>
    /\ UNCHANGED life_vars
    /\ UNCHANGED mem_vars

\* The send_buffer async_send_packet builds.
SendBuffer(p) == <<76, 83, 77, 80>> \o SizeBytes(Len(p)) \o p

\* async_send_packet(packet, callback)
async_send_packet ==
    /\ ~destroyed
    /\ nops < MaxOps
    /\ nops' = nops + 1
    /\ \E p \in Payloads :
         /\ ops' = Append(ops, Op("write", Len(send_cb) + 1, SendBuffer(p), 0))
         /\ send_arg' = Append(send_arg, p)
         /\ caller_payload' = Append(caller_payload, p)
    /\ send_cb' = Append(send_cb, <<>>)
    /\ put' = Append(put, <<>>)
    /\ UNCHANGED <<wire, conn_vars, thread_vars, read_cb, read_overlap,
                   read_wire, cancel_called, cancelled_reads,
                   at_cancel>>
    /\ UNCHANGED life_vars
    /\ UNCHANGED mem_vars

\* cancel_async(): socket.cancel()
cancel_async ==
    /\ ~destroyed
    /\ nops < MaxOps
    /\ nops' = nops + 1
    /\ ops' = [i \in 1..Len(ops) |-> [ops[i] EXCEPT !.cancelled = TRUE]]
    /\ cancel_called' = TRUE
    /\ cancelled_reads' = cancelled_reads \cup PendingReads
    /\ at_cancel' = IF cancel_called THEN at_cancel
                    ELSE [reads |-> Len(read_cb), sends |-> Len(send_cb)]
    /\ UNCHANGED <<wire, conn_vars, thread_vars, read_cb, read_overlap,
                   read_wire, send_cb, send_arg, caller_payload, put>>
    /\ UNCHANGED life_vars
    /\ UNCHANGED mem_vars

\* ~tcp_connection(): cancel_async(), then the socket member is destroyed,
\* which ends its outstanding operations with operation_aborted.  No member
\* function is called afterwards and none is running.
destroy ==
    /\ ~destroyed
    /\ \A t \in Threads : pc[t] = "idle"
    /\ nops < MaxOps
    /\ nops' = nops + 1
    /\ ops' = [i \in 1..Len(ops) |-> [ops[i] EXCEPT !.cancelled = TRUE]]
    /\ destroyed' = TRUE
    /\ UNCHANGED <<wire, conn_vars, thread_vars, async_vars, dangling>>
    /\ UNCHANGED mem_vars

\* The caller of async_send_packet changes or destroys the vector it passed
\* to call i (the storage of a destroyed vector holds anything).
change_payload ==
    /\ nops < MaxOps
    /\ nops' = nops + 1
    /\ \E i \in 1..Len(caller_payload), q \in Payloads :
         /\ caller_payload[i] = send_arg[i]
         /\ q # caller_payload[i]
         /\ caller_payload' = [caller_payload EXCEPT ![i] = q]
    /\ UNCHANGED <<sock_vars, conn_vars, thread_vars, life_vars, read_cb,
                   read_overlap, read_wire, send_cb, send_arg, put,
                   cancel_called, cancelled_reads,
                   at_cancel>>
    /\ UNCHANGED mem_vars

\* A write whose buffer is built from the caller's vector when it runs.
WriteBytes_of_caller(o) == SendBuffer(caller_payload[o.cb])

\* The bytes an asynchronous write sends: asio::buffer(*send_buffer), the
\* vector the handler owns through its shared_ptr capture.
WriteBytes(o) == o.buf

\* Handlers that all capture this.
CapturesThis_always(o) == TRUE

\* Does the handler of the operation capture this?  [send_buffer, callback]
\* for the write, [this, callback] for the two reads.
CapturesThis(o) == o.kind # "write"

\* The ways the socket can complete an asynchronous operation: the error
\* code and the byte count handed to its handler.
Completions(o) ==
    IF o.cancelled THEN {[ec |-> "operation_aborted", k |-> 0]}
    ELSE {[ec |-> "io_error", k |-> 0]} \cup
         {[ec |-> "success", k |-> k] :
             k \in IF o.kind = "write" THEN Accepted(WriteBytes(o))
                                       ELSE ReadCounts(o.n, Len(wire))}

\* The handler async_send_packet gave to async_write_some:
\* callback(asio::system_error(ec)).
send_handler(ec) == [ec |-> ec, err |-> SystemError(ec)]

Remove(s, i) == SubSeq(s, 1, i - 1) \o SubSeq(s, i + 1, Len(s))

\* The io_service completes one asynchronous operation and runs its handler.
io_service_run ==
    \E i \in 1..Len(ops) :
      LET o == ops[i] IN
      \E c \in Completions(o) :
        LET ok == c.ec = "success"
            got == Take(wire, c.k)
            filled == Overlay(async_buffer, got)
        IN
        /\ IF o.kind = "write"
             THEN /\ wire' = wire \o Take(WriteBytes(o), c.k)
                  /\ put' = [put EXCEPT ![o.cb] = @ \o Take(WriteBytes(o), c.k)]
                  /\ send_cb' = [send_cb EXCEPT ![o.cb] = Append(@, send_handler(c.ec))]
                  /\ ops' = Remove(ops, i)
                  /\ UNCHANGED <<async_buffer, async_read_excepted_size, read_cb>>
             ELSE IF o.kind = "read_size"
             THEN \* if (ec) callback({}, system_error(ec)); read_async_inner(callback);
                  LET r == read_async_inner(filled, async_read_excepted_size, o.cb)
                      failed == IF ok THEN <<>> ELSE <<ReadCb(<<>>, SystemError(c.ec))>>
                  IN
                  /\ wire' = Drop(wire, c.k)
                  /\ async_buffer' = r.buffer
                  /\ async_read_excepted_size' = r.expected
                  /\ read_cb' = [read_cb EXCEPT ![o.cb] = @ \o failed \o r.calls]
                  /\ ops' = Remove(ops, i) \o r.issued
                  /\ UNCHANGED <<send_cb, put>>
             ELSE \* if (ec) { callback({}, system_error(ec)); return; }
                  \* callback(async_buffer, {});
                  /\ wire' = Drop(wire, c.k)
                  /\ async_buffer' = filled
                  /\ read_cb' = [read_cb EXCEPT ![o.cb] =
                                   Append(@, IF ok THEN ReadCb(filled, NoError)
                                             ELSE ReadCb(<<>>, SystemError(c.ec)))]
                  /\ ops' = Remove(ops, i)
                  /\ UNCHANGED <<async_read_excepted_size, send_cb, put>>
        /\ dangling' = (dangling \/ (destroyed /\ CapturesThis(o)))
        /\ UNCHANGED <<socket_access_mutex, thread_vars, nops, read_overlap,
                       read_wire, send_arg, caller_payload, cancel_called,
                       cancelled_reads, at_cancel,
                       destroyed>>
        /\ UNCHANGED mem_vars

\* ------------------------------------------------------- specification
Next ==
    \/ \E t \in Threads : read_packet_call(t)
    \/ \E t \in Threads : read_packet_lock(t)
    \/ \E t \in Threads : read_packet_marker(t)
    \/ \E t \in Threads : read_packet_size(t)
    \/ \E t \in Threads : read_packet_payload(t)
    \/ \E t \in Threads : send_packet_marker(t)
    \/ \E t \in Threads : send_packet_size(t)
    \/ \E t \in Threads : send_packet_payload(t)
    \/ async_read_packet
    \/ async_send_packet
    \/ cancel_async
    \/ destroy
    \/ change_payload
    \/ io_service_run

Spec == Init /\ [][Next]_vars

\* The connection with two frames waiting to be read.
TwoFramesSpec == TwoFramesInit /\ [][Next]_vars

\* ------------------------------------------------------- secure memory
\* utils/secure_memory.  An allocation is a record of its bytes, the
\* protection of their pages and what has become of the process ("ok",
\* "abort" after std::abort, "segv" after an access the protection
\* forbids); addresses are offsets from the allocation's base.
memory_garbage_byte == 0
memory_canary_byte == 255

\* get_page_size(), the initializer of memory_canary_size.
memory_canary_size == page_size

\* What aligned_malloc's memory holds: zeros from mmap, anything from
\* posix_memalign and malloc.
FreshBytes == {0, 170}

\* The values the application writes.
WriteValues == {0, 7, 255}

Offsets(off, n) == off..(off + n - 1)

SetMin(S) == CHOOSE x \in S : \A y \in S : x <= y

\* mprotect(base + off, len, p), compiled in with HAVE_MPROTECT and
\* HAVE_ALIGNED_MALLOC; it fails with EINVAL on an unaligned address.
mprotect(m, off, len, p) ==
    IF ~have_aligned_malloc \/ m.status # "ok" \/ off % page_size # 0 THEN m
    ELSE [m EXCEPT !.prot = [i \in 1..Len(m.prot) |->
                                IF i - 1 \in Offsets(off, len) THEN p ELSE m.prot[i]]]

\* rewrite_memory(base + off, n, byte): the loop stores byte by byte and
\* stops at the first page that is not writable.
rewrite_memory(m, off, n, byte) ==
    IF m.status # "ok" THEN m
    ELSE LET bad == {i \in Offsets(off, n) : m.prot[i + 1] # "rw"}
             stop == IF bad = {} THEN off + n ELSE SetMin(bad)
         IN [m EXCEPT !.bytes = [i \in 1..Len(m.bytes) |->
                                    IF i - 1 \in off..(stop - 1) THEN byte ELSE m.bytes[i]],
                      !.status = IF bad = {} THEN "ok" ELSE "segv"]

\* A canary written over the last page before the trailing canary.
create_canary_misplaced(m, user_memory_size, canary_size, byte) ==
    LET m1 == rewrite_memory(m, 0, canary_size, byte)
        m2 == mprotect(m1, 0, canary_size, "none")
        m3 == rewrite_memory(m2, user_memory_size, canary_size, byte)
    IN mprotect(m3, user_memory_size, canary_size, "none")

\* create_canary(base, user_memory_size, canary_size, byte)
create_canary(m, user_memory_size, canary_size, byte) ==
    LET m1 == rewrite_memory(m, 0, canary_size, byte)
        m2 == mprotect(m1, 0, canary_size, "none")
        m3 == rewrite_memory(m2, canary_size + user_memory_size, canary_size, byte)
    IN mprotect(m3, user_memory_size, canary_size, "none")

\* One comparison loop of check_canary over [base + off, base + off + n):
\* it aborts at the first byte that differs.
canary_loop(m, off, n, byte) ==
    IF m.status # "ok" THEN m
    ELSE LET stops == {i \in Offsets(off, n) :
                          m.prot[i + 1] = "none" \/ m.bytes[i + 1] # byte}
         IN IF stops = {} THEN m
            ELSE [m EXCEPT !.status =
                     IF m.prot[SetMin(stops) + 1] = "none" THEN "segv" ELSE "abort"]

\* A check that compares the leading canary only.
check_canary_leading_only(m, user_memory_size, canary_size, byte) ==
    LET m1 == mprotect(m, 0, canary_size, "r")
        m2 == canary_loop(m1, 0, canary_size, byte)
    IN mprotect(m2, 0, canary_size, "none")

\* _detail::check_canary(base, user_memory_size, canary_size, byte)
check_canary(m, user_memory_size, canary_size, byte) ==
    LET m1 == mprotect(m, 0, canary_size, "r")
        m2 == canary_loop(m1, 0, canary_size, byte)
        m3 == mprotect(m2, 0, canary_size, "none")
        m4 == mprotect(m3, user_memory_size, canary_size, "r")
        m5 == canary_loop(m4, user_memory_size + canary_size, canary_size, byte)
    IN mprotect(m5, user_memory_size, canary_size, "none")

aligned_malloc(n, fresh) ==
    [bytes |-> [i \in 1..n |-> fresh], prot |-> [i \in 1..n |-> "rw"], status |-> "ok"]

lock_memory(m, n) == mprotect(m, 0, n, "rw")

\* A padding computed without the test for a size that is aligned already.
padding_size_no_early_return(unpadded_size) ==
    IF have_aligned_malloc
      THEN page_size - (unpadded_size % page_size)
      ELSE 0

padding_size(unpadded_size) ==
    IF have_aligned_malloc
      THEN IF unpadded_size % page_size = 0 THEN 0
           ELSE page_size - (unpadded_size % page_size)
      ELSE 0

allocation_size(size) == size + memory_canary_size * 2 + padding_size(size)

\* An allocation that is not filled before its canaries are written.
secure_malloc_no_fill(size, fresh) ==
    LET m0 == aligned_malloc(allocation_size(size), fresh)
        m1 == lock_memory(m0, allocation_size(size))
    IN create_canary(m1, size + padding_size(size), memory_canary_size,
                     memory_canary_byte)

\* secure_malloc(size) once aligned_malloc has returned memory.
secure_malloc(size, fresh) ==
    LET m0 == aligned_malloc(allocation_size(size), fresh)
        m1 == lock_memory(m0, allocation_size(size))
        m2 == rewrite_memory(m1, 0, allocation_size(size), memory_garbage_byte)
    IN create_canary(m2, size + padding_size(size), memory_canary_size,
                     memory_canary_byte)

\* A free that overwrites the user's bytes only.
secure_free_user_only(m, size) ==
    LET m1 == check_canary(m, size + padding_size(size), memory_canary_size,
                           memory_canary_byte)
        m2 == mprotect(m1, 0, allocation_size(size), "rw")
    IN rewrite_memory(m2, memory_canary_size, size, memory_garbage_byte)

\* secure_free(ptr, size) up to unlock_memory.
secure_free(m, size) ==
    LET m1 == check_canary(m, size + padding_size(size), memory_canary_size,
                           memory_canary_byte)
        m2 == mprotect(m1, 0, allocation_size(size), "rw")
    IN rewrite_memory(m2, 0, allocation_size(size), memory_garbage_byte)

\* The allocation as the record the functions work on, and back.
Allocation == [bytes |-> mem, prot |-> prot, status |-> "ok"]

Outcome(m) ==
    /\ mem' = m.bytes
    /\ prot' = m.prot
    /\ proc' = CASE m.status = "ok" -> "running"
                 [] m.status = "abort" -> "aborted"
                 [] OTHER -> "segv"

\* The first call: secure_malloc(size).  aligned_malloc may return nullptr.
call_secure_malloc ==
    /\ heap = "unallocated"
    /\ last_call' = "malloc"
    /\ \E size \in 0..MaxSize :
         /\ alloc_size' = size
         /\ \/ /\ heap' = "failed"
               /\ UNCHANGED <<mem, prot, proc, user_ptr>>
            \/ \E fresh \in FreshBytes :
                 /\ Outcome(secure_malloc(size, fresh))
                 /\ heap' = "live"
                 /\ user_ptr' = 0 + memory_canary_size
    /\ UNCHANGED <<have_aligned_malloc, page_size, nwrites, stray, before>>
    /\ UNCHANGED net_vars

\* The application stores a byte at an address of the allocation.
write ==
    /\ heap = "live"
    /\ proc = "running"
    /\ nwrites < MaxWrites
    /\ nwrites' = nwrites + 1
    /\ last_call' = "write"
    /\ \E off \in 0..(Len(mem) - 1), v \in WriteValues :
         /\ Outcome(rewrite_memory(Allocation, off, 1, v))
         /\ stray' = (stray \/ off \notin Offsets(user_ptr, alloc_size))
    /\ UNCHANGED <<have_aligned_malloc, page_size, heap, alloc_size, user_ptr, before>>
    /\ UNCHANGED net_vars

\* lsmp::check_canary<T>(ptr, size) with a T of one byte.
call_check_canary ==
    /\ heap = "live"
    /\ proc = "running"
    /\ last_call' = "check"
    /\ before' = mem
    /\ Outcome(check_canary(Allocation, alloc_size + padding_size(alloc_size),
                            memory_canary_size, memory_garbage_byte))
    /\ UNCHANGED <<have_aligned_malloc, page_size, heap, alloc_size, user_ptr,
                   nwrites, stray>>
    /\ UNCHANGED net_vars

\* secure_free(ptr, size) with the size of the allocation.  aligned_free
\* gives the memory back in the builds with aligned allocation only.
call_secure_free ==
    /\ heap = "live"
    /\ proc = "running"
    /\ last_call' = "free"
    /\ before' = mem
    /\ LET m == secure_free(Allocation, alloc_size) IN
         /\ Outcome(m)
         /\ heap' = IF m.status # "ok" THEN "live"
                    ELSE IF have_aligned_malloc THEN "released" ELSE "leaked"
    /\ UNCHANGED <<have_aligned_malloc, page_size, alloc_size, user_ptr, nwrites, stray>>
    /\ UNCHANGED net_vars

MemInit ==
    /\ wire = <<>>
    /\ Constructed
    /\ have_aligned_malloc \in BOOLEAN
    /\ page_size \in PageSizes
    /\ Unallocated

MemNext ==
    \/ call_secure_malloc
    \/ write
    \/ call_check_canary
    \/ call_secure_free

MemSpec == MemInit /\ [][MemNext]_vars

TypeOK ==
    /\ pc \in [Threads -> {"idle", "r_lock", "r_marker", "r_size", "r_payload",
                           "s_size", "s_payload"}]
    /\ socket_access_mutex \in Threads \cup {NoThread}
\* ------------------------------------------------------------- properties
\* No asynchronous operation is outstanding: the io_service has no handler
\* left to run, so no callback can be invoked before the next call.
Quiescent == ops = <<>>

ReadOps == {i \in 1..Len(ops) : ops[i].kind # "write"}
WriteOps == {i \in 1..Len(ops) : ops[i].kind = "write"}

\* An invocation of an async_read_callback of one of the two allowed shapes.
WellFormedReadCb(c) ==
    \/ c.err = NoError
    \/ /\ c.payload = <<>>
       /\ c.err.kind \in {"corrupted_packet_error", "system_error"}

\* C1: the callback of the first async_read_packet on a fresh connection is
\* never invoked twice, and once the io_service has no operation left it has
\* been invoked exactly once, with the payload and no error or with no
\* payload and a framing or transport error.
C1_ReadCallbackExactlyOnce ==
    Len(read_cb) >= 1 =>
        /\ Len(read_cb[1]) <= 1
        /\ Quiescent => /\ Len(read_cb[1]) = 1
                        /\ WellFormedReadCb(read_cb[1][1])

\* C2: an async_read_packet called while an earlier one is pending has
\* invoked its own callback with std::domain_error when it returns and has
\* issued no socket read, and no callback is invoked twice.
C2_SecondReadRejected ==
    \A i \in 1..Len(read_cb) :
        /\ Len(read_cb[i]) <= 1
        /\ read_overlap[i] =>
              /\ read_cb[i] = <<ReadCb(<<>>, DomainError)>>
              /\ \A j \in ReadOps : ops[j].cb # i

\* C3: when a read_packet took the mutex after a send_packet(p) had returned
\* and the stream held exactly the frame of p, that read_packet, if it ended
\* without a transport error, returned p and consumed 4 + 8 + |p| bytes,
\* however the stream split the bytes into reads.
C3_SyncRoundTrip ==
    \A t \in Threads :
        \A p \in sent_at_lock[t] :
            ( /\ at_lock[t] = Frame(p)
              /\ pc[t] = "idle"
              /\ outcome[t].kind # "system_error" )
            => /\ outcome[t] = Returned(p)
               /\ consumed[t] = 4 + 8 + Len(p)

\* C4: when the stream holds exactly the frame of p at an async_read_packet
\* made with no read pending, and no transport error or cancellation occurs,
\* then once the io_service has no operation left the callback has received
\* p and no error.
C4_AsyncRoundTrip ==
    \A i \in 1..Len(read_cb), p \in Payloads :
        ( /\ read_wire[i] = Frame(p)
          /\ ~read_overlap[i]
          /\ ~cancel_called
          /\ \A j \in 1..Len(read_cb[i]) : read_cb[i][j].err.kind # "system_error"
          /\ Quiescent )
        => read_cb[i] = <<ReadCb(p, NoError)>>

\* C5: a send_packet(p) that returned has put on the stream exactly the
\* marker, the 8 bytes of |p| and the bytes of p.
C5_SendWritesFrame ==
    \A t \in Threads : outcome[t] = Sent => written[t] = Frame(packet[t])

\* C6: a read_packet whose 4 marker bytes are not 'L','S','M','P' has ended
\* with corrupted_packet_error, returned no payload and made no socket read
\* after the one that read the marker.
C6_BadMarkerIsFramingError ==
    \A t \in Threads :
        (marker[t] # <<>> /\ marker[t] # Magic) =>
            /\ pc[t] = "idle"
            /\ outcome[t] = Thrown("corrupted_packet_error")
            /\ result[t] = <<>>
            /\ nreads[t] = 1
            /\ consumed[t] <= 4

\* A read_packet got the bytes X X X X as its marker and threw.
C6_Witness ==
    \E t \in Threads :
        /\ marker[t] = <<88, 88, 88, 88>>
        /\ outcome[t] = Thrown("corrupted_packet_error")
        /\ consumed[t] = 4

\* C7: a read_packet called while an async_read_packet is pending has thrown
\* std::domain_error and made no socket read.
C7_SyncReadRejectedWhilePending ==
    \A t \in Threads :
        reentrant[t] =>
            /\ pc[t] = "idle"
            /\ outcome[t] = Thrown("domain_error")
            /\ nreads[t] = 0

\* C8: at most one asynchronous socket read and at most one asynchronous
\* socket write are outstanding.
C8_AtMostOneOutstanding ==
    /\ Cardinality(ReadOps) <= 1
    /\ Cardinality(WriteOps) <= 1

\* C9: the callback of an async_send_packet is not invoked twice, has been
\* invoked once the io_service has no operation left, gets an empty error
\* when the write succeeded and a system_error only when it failed.
C9_SendCallbackOnce ==
    \A i \in 1..Len(send_cb) :
        /\ Len(send_cb[i]) <= 1
        /\ Quiescent => Len(send_cb[i]) = 1
        /\ \A j \in 1..Len(send_cb[i]) :
              LET c == send_cb[i][j] IN
              /\ c.ec = "success" => c.err = NoError
              /\ c.err.has_value => (c.ec # "success" /\ c.err.kind = "system_error")

\* C10: the callback of an asynchronous read that was pending at a
\* cancel_async is not invoked twice and, once the io_service has no
\* operation left, has been invoked with a transport error and no payload;
\* and no socket read is outstanding then.
C10_CancelFiresCallback ==
    \A i \in cancelled_reads :
        /\ Len(read_cb[i]) <= 1
        /\ Quiescent => /\ Len(read_cb[i]) = 1
                        /\ read_cb[i][1].payload = <<>>
                        /\ read_cb[i][1].err.kind = "system_error"
\* ------------------------------------------------ cancellation, lifetime
\* C11: a read_packet or send_packet called after cancel_async, once it has
\* ended, has thrown corrupted_packet_error; the callback of an
\* async_read_packet or async_send_packet called after cancel_async is only
\* ever invoked with corrupted_packet_error, and has been invoked once the
\* io_service has no operation left.
C11_FailClosedAfterCancel ==
    /\ \A t \in Threads :
          (after_cancel[t] /\ pc[t] = "idle" /\ outcome[t] # NoOutcome)
          => outcome[t] = Thrown("corrupted_packet_error")
    /\ cancel_called =>
          /\ \A i \in (at_cancel.reads + 1)..Len(read_cb) :
                /\ \A j \in 1..Len(read_cb[i]) :
                      read_cb[i][j] = ReadCb(<<>>, CorruptedPacketError)
                /\ Quiescent => read_cb[i] # <<>>
          /\ \A i \in (at_cancel.sends + 1)..Len(send_cb) :
                /\ \A j \in 1..Len(send_cb[i]) :
                      send_cb[i][j].err = CorruptedPacketError
                /\ Quiescent => send_cb[i] # <<>>

\* C12: no handler of an asynchronous operation has used the connection
\* after its destruction, and once the connection is destroyed no operation
\* still outstanding has a handler that holds the this pointer.
C12_NoHandlerUsesDestroyed ==
    /\ ~dangling
    /\ destroyed => \A i \in 1..Len(ops) : ~CapturesThis(ops[i])

\* A write the destructor cancelled has completed with operation_aborted
\* and its handler has run after the destruction.
C12_Witness ==
    /\ destroyed
    /\ ~cancel_called
    /\ \E i \in 1..Len(send_cb) :
          /\ Len(send_cb[i]) = 1
          /\ send_cb[i][1].ec = "operation_aborted"

\* The positions of send_packet between its socket writes, and of
\* read_packet between its socket reads.
Sending == {"s_size", "s_payload"}
Reading == {"r_marker", "r_size", "r_payload"}

\* C13: two send_packet calls are never both between their first and last
\* socket write, so the three writes of one are not interleaved with those
\* of the other, and no send_packet is between its socket writes while a
\* read_packet of another thread holds the mutex.
C13_SendSynchronized ==
    \A s, t \in Threads :
        s # t => /\ ~(pc[s] \in Sending /\ pc[t] \in Sending)
                 /\ ~(pc[s] \in Sending /\ socket_access_mutex = t)

IsPrefix(a, b) == Len(a) <= Len(b) /\ SubSeq(b, 1, Len(a)) = a

\* The socket reads of two read_packet calls never overlap.
ReadsMutuallyExclusive ==
    \A s, t \in Threads : s # t => ~(pc[s] \in Reading /\ pc[t] \in Reading)

\* The thread waits for the mutex in read_packet, or its last call was a
\* read_packet that took it.
InReadPacket(s) == pc[s] = "r_lock" \/ pc[s] \in Reading \/ at_lock[s] # <<>>

\* C14: two read_packet calls are never both among their socket reads, and
\* when both threads have called read_packet, a call that took the mutex
\* when the stream began with the whole frame of p, if it ended without a
\* transport error, returned p and consumed exactly that frame.
C14_ConcurrentReadsWholeFrames ==
    /\ ReadsMutuallyExclusive
    /\ \A t \in Threads, p \in Payloads :
          ( /\ \A s \in Threads : InReadPacket(s)
            /\ IsPrefix(Frame(p), at_lock[t])
            /\ pc[t] = "idle"
            /\ outcome[t] # NoOutcome
            /\ outcome[t].kind # "system_error" )
          => /\ outcome[t] = Returned(p)
             /\ consumed[t] = Len(Frame(p))

\* C15: the bytes an async_send_packet's write has put on the stream are
\* the start of the frame of the payload as it was at the call, and the
\* bytes a pending write will send are that frame, whatever the caller's
\* vector holds by then.
C15_SendUsesPayloadAtCall ==
    /\ \A i \in 1..Len(put) : IsPrefix(put[i], Frame(send_arg[i]))
    /\ \A j \in WriteOps : WriteBytes(ops[j]) = Frame(send_arg[ops[j].cb])

\* A write has sent the whole frame of the payload passed to the call after
\* the caller changed its vector.
C15_Witness ==
    \E i \in 1..Len(put) :
        /\ caller_payload[i] # send_arg[i]
        /\ Len(send_cb[i]) = 1
        /\ send_cb[i][1].ec = "success"
        /\ put[i] = Frame(send_arg[i])

\* ------------------------------------------------ secure memory layout
\* The layout of an allocation: the leading canary is its first page, the
\* trailing canary its last page, the user region the `size' bytes after
\* the leading canary.
LeadingCanary == Offsets(0, page_size)
TrailingCanary == Offsets(Len(mem) - page_size, page_size)
UserRegion == Offsets(page_size, alloc_size)

\* Both canary regions of the bytes b hold the canary sentinel only.
CanaryIntact(b) ==
    \A off \in LeadingCanary \cup TrailingCanary : b[off + 1] = 255

\* C16: a secure_free called when some byte of the leading or of the
\* trailing canary differed from 0xFF has aborted the process, has changed
\* no byte of the allocation and has not released it.
C16_CorruptCanaryAbortsFree ==
    (last_call = "free" /\ ~CanaryIntact(before)) =>
        /\ proc = "aborted"
        /\ mem = before
        /\ heap = "live"

\* secure_free has aborted on an allocation whose leading canary was whole
\* and whose trailing canary had its last byte changed.
C16_Witness ==
    /\ last_call = "free"
    /\ proc = "aborted"
    /\ \A off \in LeadingCanary : before[off + 1] = 255
    /\ before[Len(before)] # 255

\* C17: while an allocation is live and every write so far was inside
\* [ptr, ptr + size), both canary regions hold 0xFF only, and a secure_free
\* called then with the same size has returned without aborting.
C17_UserWritesKeepCanaries ==
    /\ (heap = "live" /\ ~stray) => CanaryIntact(mem)
    /\ (last_call = "free" /\ ~stray) =>
          /\ proc = "running"
          /\ heap \in {"released", "leaked"}

\* secure_free has returned after writes into the user region.
C17_Witness ==
    /\ last_call = "free"
    /\ ~stray
    /\ nwrites >= 1
    /\ proc = "running"
    /\ heap \in {"released", "leaked"}

\* C18: in the build with page protection, when secure_malloc has returned
\* the inaccessible bytes of the allocation are exactly those of the
\* leading and of the trailing canary page.
C18_OnlyCanaryPagesProtected ==
    (have_aligned_malloc /\ heap = "live" /\ last_call = "malloc") =>
        {off \in 0..(Len(mem) - 1) : prot[off + 1] = "none"}
            = LeadingCanary \cup TrailingCanary

\* C19: a check_canary on a live allocation has aborted the process exactly
\* when some canary byte differed from 0xFF, and on whole canaries it has
\* returned and changed no byte of the allocation.
C19_CheckAbortsIffCorrupt ==
    last_call = "check" =>
        /\ proc = "aborted" <=> ~CanaryIntact(before)
        /\ CanaryIntact(before) => (proc = "running" /\ mem = before)

\* C20: when secure_malloc has succeeded and the caller has written nothing,
\* every byte of [ptr, ptr + size) is 0x00 and ptr is the base of the
\* allocation plus the size of the leading canary.
C20_UserRegionZeroed ==
    (heap = "live" /\ nwrites = 0) =>
        /\ \A off \in UserRegion : mem[off + 1] = 0
        /\ user_ptr = 0 + page_size

\* secure_malloc has returned a user region of at least one byte.
C20_Witness ==
    /\ heap = "live"
    /\ last_call = "malloc"
    /\ alloc_size >= 1
    /\ proc = "running"

\* C21: a secure_free called on an allocation with whole canaries has
\* returned with every byte of the allocation, canaries, user data and
\* padding alike, equal to 0x00 when it unlocked and gave back the memory.
C21_FreeZeroesAllocation ==
    (last_call = "free" /\ CanaryIntact(before)) =>
        /\ proc = "running"
        /\ heap \in {"released", "leaked"}
        /\ Len(mem) = Len(before)
        /\ \A i \in 1..Len(mem) : mem[i] = 0

\* secure_free has returned on an allocation the user had written 7 into.
C21_Witness ==
    /\ last_call = "free"
    /\ CanaryIntact(before)
    /\ \E off \in UserRegion : before[off + 1] = 7
    /\ \A i \in 1..Len(mem) : mem[i] = 0

AsyncReadNeverStarts ==
    /\ ReadOps = {}
    /\ \A i \in 1..Len(read_cb) : read_cb[i] = <<>>

\* C26: when the callback of an async_send_packet(p, callback) has been
\* handed a success error code, the write has put the whole frame of p,
\* marker, length and payload in that order, on the stream.
C26_AsyncSendSuccessIsWholeFrame ==
    \A i \in 1..Len(send_cb) :
        \A j \in 1..Len(send_cb[i]) :
            send_cb[i][j].ec = "success" => put[i] = Frame(send_arg[i])

\* C27: in every reachable state the async_buffer is empty and
\* async_read_excepted_size is 0.
C27_AsyncBufferStaysEmpty ==
    /\ async_buffer = <<>>
    /\ async_read_excepted_size = 0

\* An async_read_packet has been called with bytes waiting on the stream
\* and the io_service has run every handler it had.
C27_Witness ==
    /\ \E i \in 1..Len(read_cb) : read_wire[i] # <<>>
    /\ nops >= 2
    /\ Quiescent

\* C28: the mutex is only ever held by a thread that is among the socket
\* reads of its read_packet, so no read_packet that has ended, by return or
\* by either exception, holds it, and a read_packet waiting for the mutex
\* when no other call is among its reads finds it free.
C28_FinishedReadHoldsNoLock ==
    /\ \A t \in Threads : socket_access_mutex = t => pc[t] \in Reading
    /\ \A t \in Threads :
          (pc[t] = "r_lock" /\ \A s \in Threads : pc[s] \notin Reading)
          => socket_access_mutex = NoThread

\* A read_packet has ended with the framing error of a bad marker and a
\* read_packet of the other thread, called later, has taken the mutex.
C28_Witness ==
    \E s, t \in Threads :
        /\ s # t
        /\ pc[t] = "idle"
        /\ marker[t] # <<>>
        /\ outcome[t] = Thrown("corrupted_packet_error")
        /\ socket_access_mutex = s
====
